---- MODULE Spec2Model ----
(***************************************************************************)
(* Model of the installation-config loader (loadDocumentsJSON and its      *)
(* mapping functions) and of the relevance filter of the RAG driver.       *)
(*                                                                         *)
(* JavaScript values are tagged records [t |-> <typeof-like tag>, v |-> _] *)
(* so that the dynamic checks of the code (truthiness, typeof,             *)
(* Array.isArray, property access on null) are computed, not assumed.      *)
(* Strings are sequences of one-character strings, so that substring,      *)
(* split, toLowerCase and includes are computed as the code computes them. *)
(***************************************************************************)
EXTENDS Integers, Sequences, FiniteSets, TLC

(***************************************************************************)
(* Bounds of the model.                                                    *)
(***************************************************************************)
MaxEndpoints == 2
MaxAreas == 2

(***************************************************************************)
(* JavaScript values.                                                      *)
(***************************************************************************)
Undef == [t |-> "undefined"]
Null == [t |-> "null"]
Num(n) == [t |-> "number", v |-> n]
Str(s) == [t |-> "string", v |-> s]
Bool(b) == [t |-> "boolean", v |-> b]
Arr(s) == [t |-> "array", v |-> s]
Obj(f) == [t |-> "object", v |-> f]

\* Boolean coercion of a value, as `!x`, `x && y`, `x || y` apply it.
Truthy(x) ==
    CASE x.t = "undefined" -> FALSE
      [] x.t = "null" -> FALSE
      [] x.t = "number" -> x.v # 0
      [] x.t = "string" -> Len(x.v) > 0
      [] x.t = "boolean" -> x.v
      [] OTHER -> TRUE

\* typeof x === 'object' (true of null and of arrays too).
TypeofObject(x) == x.t \in {"null", "array", "object"}

\* Array.isArray(x)
IsArray(x) == x.t = "array"

\* x.k for a value x that is neither null nor undefined.
Get(x, k) ==
    CASE x.t = "object" -> IF k \in DOMAIN x.v THEN x.v[k] ELSE Undef
      [] x.t \in {"array", "string"} /\ k = "length" -> Num(Len(x.v))
      [] OTHER -> Undef

\* x?.k : undefined when x is null or undefined.
GetOpt(x, k) == IF x.t \in {"undefined", "null"} THEN Undef ELSE Get(x, k)

\* Reading a property of null or undefined raises a TypeError.
GetThrows(x) == x.t \in {"undefined", "null"}

\* x || y
OrElse(x, y) == IF Truthy(x) THEN x ELSE y

\* s.substring(0, 8)
\* Variant: the whole string is kept.
Substring8_Whole(s) == s

Substring8(s) == SubSeq(s, 1, IF Len(s) < 8 THEN Len(s) ELSE 8)

Min(a, b) == IF a < b THEN a ELSE b

\* All sequences over S of length 0..n.
SeqUpTo(S, n) == UNION {[1..k -> S] : k \in 0..n}

(***************************************************************************)
(* String literals of the code.                                            *)
(***************************************************************************)
PartitionPrefix == <<"P", "a", "r", "t", "i", "t", "i", "o", "n", "_">>
DevicePrefix == <<"D", "e", "v", "i", "c", "e", "_">>

EmptyMap == [k \in {} |-> Undef]

\* map.set(k, val) on a Map modelled as a function.
MapSet(map, k, val) == [x \in (DOMAIN map) \cup {k} |-> IF x = k THEN val ELSE map[x]]

\* array.includes(x): SameValueZero, so only primitives can be found in a
\* freshly parsed array (two parsed objects are never the same reference).
Includes(arr, x) ==
    /\ x.t \in {"undefined", "null", "number", "string", "boolean"}
    /\ \E i \in 1..Len(arr) : arr[i] = x

(***************************************************************************)
(* buildAreaPartitionMaps                                                  *)
(***************************************************************************)

\* One partition entry of an area: the pair pushed on areaMap.partitions, or
\* nothing when the entry is falsy or lacks a uuid or a name.
ResolvePartition(partition) ==
    IF ~Truthy(partition) THEN <<>>
    ELSE LET partitionUuid == IF partition.t = "string" THEN partition
                              ELSE Get(partition, "uuid")
             partitionName == IF partition.t = "string"
                              THEN Str(PartitionPrefix \o Substring8(partition.v))
                              ELSE Get(partition, "name")
         IN IF Truthy(partitionUuid) /\ Truthy(partitionName)
            THEN <<[uuid |-> partitionUuid, name |-> partitionName]>>
            ELSE <<>>

RECURSIVE ResolvePartitions(_)
ResolvePartitions(parts) ==
    IF Len(parts) = 0 THEN <<>>
    ELSE ResolvePartition(Head(parts)) \o ResolvePartitions(Tail(parts))

\* Variant: one of the two identifiers is enough.
AreaIsValid_EitherIdentifier(area) ==
    /\ Truthy(area) /\ TypeofObject(area)
    /\ (Truthy(Get(area, "uuid")) \/ Truthy(Get(area, "name")))

\* The strict validation of one area entry.
AreaIsValid(area) ==
    /\ Truthy(area) /\ TypeofObject(area)
    /\ Truthy(Get(area, "uuid")) /\ Truthy(Get(area, "name"))

\* The areaMap built for one valid area.
AreaMapOf(area) ==
    [areaUuid |-> Get(area, "uuid"),
     areaName |-> Get(area, "name"),
     partitions |-> IF IsArray(Get(area, "partitions"))
                    THEN ResolvePartitions(Get(area, "partitions").v)
                    ELSE <<>>]

\* Variant: each map is put in front of the ones built before it.
RECURSIVE AreaMapsLoop_Reversed(_)
AreaMapsLoop_Reversed(areas) ==
    IF Len(areas) = 0 THEN <<>>
    ELSE AreaMapsLoop_Reversed(Tail(areas))
         \o (IF AreaIsValid(Head(areas)) THEN <<AreaMapOf(Head(areas))>> ELSE <<>>)

RECURSIVE AreaMapsLoop(_)
AreaMapsLoop(areas) ==
    IF Len(areas) = 0 THEN <<>>
    ELSE (IF AreaIsValid(Head(areas)) THEN <<AreaMapOf(Head(areas))>> ELSE <<>>)
         \o AreaMapsLoop(Tail(areas))

buildAreaPartitionMaps(jsonContent) ==
    LET areas == Get(jsonContent, "areas")
    IN IF ~Truthy(areas) \/ ~IsArray(areas) THEN <<>> ELSE AreaMapsLoop(areas.v)

(***************************************************************************)
(* buildEndpointAreaRelations                                              *)
(***************************************************************************)

\* Variant: an area that shares a partition contributes all its partitions.
SharedPartitions_WholeArea(areaPartitions, endpointPartitions) ==
    IF \E i \in 1..Len(areaPartitions) : Includes(endpointPartitions, areaPartitions[i].uuid)
    THEN areaPartitions ELSE <<>>

\* areaMap.partitions.filter(p => endpoint.partitions.includes(p.uuid))
RECURSIVE SharedPartitions(_, _)
SharedPartitions(areaPartitions, endpointPartitions) ==
    IF Len(areaPartitions) = 0 THEN <<>>
    ELSE (IF Includes(endpointPartitions, Head(areaPartitions).uuid)
          THEN <<Head(areaPartitions)>> ELSE <<>>)
         \o SharedPartitions(Tail(areaPartitions), endpointPartitions)

\* Variant: the names are listed in the opposite order of the identifiers.
RelationOf_LocationReversed(endpoint, endpointName, areaMap, sharedPartitions) ==
    [endpointUuid |-> Get(endpoint, "uuid"),
     endpointName |-> endpointName,
     areaUuid |-> areaMap.areaUuid,
     areaName |-> areaMap.areaName,
     partitionUuids |-> [i \in 1..Len(sharedPartitions) |-> sharedPartitions[i].uuid],
     location |-> [i \in 1..Len(sharedPartitions) |->
                     sharedPartitions[Len(sharedPartitions) + 1 - i].name]]

\* The relation object built for an endpoint and an intersecting area.
RelationOf(endpoint, endpointName, areaMap, sharedPartitions) ==
    [endpointUuid |-> Get(endpoint, "uuid"),
     endpointName |-> endpointName,
     areaUuid |-> areaMap.areaUuid,
     areaName |-> areaMap.areaName,
     partitionUuids |-> [i \in 1..Len(sharedPartitions) |-> sharedPartitions[i].uuid],
     location |-> [i \in 1..Len(sharedPartitions) |-> sharedPartitions[i].name]]

\* Variant: a later match overwrites the stored relation.
StoreRelation_Overwrite(relations, uuid, relation) == MapSet(relations, uuid, relation)

\* relations.has(uuid) ? (log the conflict) : relations.set(uuid, relation)
StoreRelation(relations, uuid, relation) ==
    IF uuid \in DOMAIN relations THEN relations ELSE MapSet(relations, uuid, relation)

\* The inner loop over the area maps, for one endpoint.
RECURSIVE AreaLoop(_, _, _, _)
AreaLoop(relations, endpoint, endpointName, areaMaps) ==
    IF Len(areaMaps) = 0 THEN relations
    ELSE LET areaMap == Head(areaMaps)
             shared == SharedPartitions(areaMap.partitions, Get(endpoint, "partitions").v)
             next == IF Len(shared) > 0
                     THEN StoreRelation(relations, Get(endpoint, "uuid"),
                                        RelationOf(endpoint, endpointName, areaMap, shared))
                     ELSE relations
         IN AreaLoop(next, endpoint, endpointName, Tail(areaMaps))

\* An endpoint entry the loop passes over: null or without uuid, without a
\* non-empty partitions array, or (caught TypeError) unnamed with a uuid that
\* has no substring method.
EndpointSkipped(endpoint) ==
    \/ ~Truthy(endpoint)
    \/ ~Truthy(Get(endpoint, "uuid"))
    \/ ~IsArray(Get(endpoint, "partitions"))
    \/ Len(Get(endpoint, "partitions").v) = 0
    \/ (~Truthy(Get(endpoint, "name")) /\ Get(endpoint, "uuid").t # "string")

\* Variant: the endpoint's own name is never used.
EndpointNameOf_AlwaysDevice(endpoint) ==
    Str(DevicePrefix \o Substring8(Get(endpoint, "uuid").v))

EndpointNameOf(endpoint) ==
    IF Truthy(Get(endpoint, "name")) THEN Get(endpoint, "name")
    ELSE Str(DevicePrefix \o Substring8(Get(endpoint, "uuid").v))

\* Variant: the endpoints are visited from the last to the first.
RECURSIVE EndpointLoop_Reversed(_, _, _)
EndpointLoop_Reversed(relations, endpoints, areaMaps) ==
    IF Len(endpoints) = 0 THEN relations
    ELSE LET endpoint == endpoints[Len(endpoints)]
             next == IF EndpointSkipped(endpoint) THEN relations
                     ELSE AreaLoop(relations, endpoint, EndpointNameOf(endpoint), areaMaps)
         IN EndpointLoop_Reversed(next, SubSeq(endpoints, 1, Len(endpoints) - 1), areaMaps)

\* The outer loop over the endpoints.
RECURSIVE EndpointLoop(_, _, _)
EndpointLoop(relations, endpoints, areaMaps) ==
    IF Len(endpoints) = 0 THEN relations
    ELSE LET endpoint == Head(endpoints)
             next == IF EndpointSkipped(endpoint) THEN relations
                     ELSE AreaLoop(relations, endpoint, EndpointNameOf(endpoint), areaMaps)
         IN EndpointLoop(next, Tail(endpoints), areaMaps)

\* The debug report printed when no relation was created reads
\* ep.partitions of the first five endpoints outside any try block: it
\* raises a TypeError on a null endpoint, and on partitions that have a
\* positive length but no join method.
DebugReportThrows(endpoints) ==
    \E i \in 1..Min(5, Len(endpoints)) :
        \/ GetThrows(endpoints[i])
        \/ LET parts == Get(endpoints[i], "partitions")
               len == GetOpt(parts, "length")
           IN len.t = "number" /\ len.v > 0 /\ ~IsArray(parts)

\* Variant: the two input tests are left out and the loop always runs.
buildEndpointAreaRelations_NoInputTest(jsonContent, areaPartitionMaps) ==
    LET endpoints == Get(jsonContent, "endpoints").v
        relations == EndpointLoop(EmptyMap, endpoints, areaPartitionMaps)
    IN IF DOMAIN relations = {} /\ DebugReportThrows(endpoints)
       THEN [threw |-> TRUE, relations |-> EmptyMap]
       ELSE [threw |-> FALSE, relations |-> relations]

\* Result: [threw |-> BOOLEAN, relations |-> the Map].
buildEndpointAreaRelations(jsonContent, areaPartitionMaps) ==
    LET areas == GetOpt(jsonContent, "areas")
    IN IF ~Truthy(areas) \/ ~IsArray(areas)
       THEN [threw |-> FALSE, relations |-> EmptyMap]
       ELSE IF Len(areaPartitionMaps) = 0
       THEN [threw |-> FALSE, relations |-> EmptyMap]
       ELSE LET endpoints == Get(jsonContent, "endpoints").v
                relations == EndpointLoop(EmptyMap, endpoints, areaPartitionMaps)
            IN IF DOMAIN relations = {} /\ DebugReportThrows(endpoints)
               THEN [threw |-> TRUE, relations |-> EmptyMap]
               ELSE [threw |-> FALSE, relations |-> relations]

(***************************************************************************)
(* buildGlobalPartitionMap (Partition Resolver).  Its file,                *)
(* buildGlobalPartitionsMap.js, is imported by the loader but is not among *)
(* the sources; it is modelled from the design document, section 4.2.      *)
(***************************************************************************)

\* Variant: bare identifier strings are not entered in the map.
GlobalResolve_NoSynthesis(map, entry) ==
    IF entry.t = "object" /\ Truthy(Get(entry, "uuid")) /\ Truthy(Get(entry, "name"))
    THEN MapSet(map, Get(entry, "uuid"), Get(entry, "name"))
    ELSE map

\* One partition entry: a bare identifier string gets a synthesized name, an
\* object contributes its own uuid/name and is skipped when either is missing.
GlobalResolve(map, entry) ==
    IF entry.t = "string"
    THEN MapSet(map, entry, Str(PartitionPrefix \o Substring8(entry.v)))
    ELSE IF entry.t = "object" /\ Truthy(Get(entry, "uuid")) /\ Truthy(Get(entry, "name"))
    THEN MapSet(map, Get(entry, "uuid"), Get(entry, "name"))
    ELSE map

RECURSIVE GlobalPartitionLoop(_, _)
GlobalPartitionLoop(map, entries) ==
    IF Len(entries) = 0 THEN map
    ELSE GlobalPartitionLoop(GlobalResolve(map, Head(entries)), Tail(entries))

RECURSIVE GlobalAreaLoop(_, _)
GlobalAreaLoop(map, areas) ==
    IF Len(areas) = 0 THEN map
    ELSE LET parts == GetOpt(Head(areas), "partitions")
             next == IF IsArray(parts) THEN GlobalPartitionLoop(map, parts.v) ELSE map
         IN GlobalAreaLoop(next, Tail(areas))

buildGlobalPartitionMap(jsonContent) ==
    LET areas == Get(jsonContent, "areas")
    IN IF IsArray(areas) THEN GlobalAreaLoop(EmptyMap, areas.v) ELSE EmptyMap

(***************************************************************************)
(* getFallbackDocument                                                     *)
(***************************************************************************)

\* The suffixes Math.random().toString(36).substring(2, 9) may yield.
RandomSuffixes == {"k3x9q2a", "0b7zt1m"}

getFallbackDocument(message, suffix) ==
    [status |-> "returned",
     error |-> "none",
     documents |->
        <<[pageContent |-> [error |-> "Failed to load document",
                            message |-> message,
                            fallbackType |-> "empty_system"],
           metadata |-> [source |-> "fallback",
                         loc |-> "internal",
                         type |-> "installation-config",
                         isValid |-> FALSE,
                         uuid |-> <<"fallback-", suffix>>,
                         name |-> "Fallback Document",
                         category |-> -1,
                         deviceType |-> "other",
                         categoryName |-> "fallback",
                         chunkStrategy |-> "standard",
                         chunkType |-> "fallback",
                         hasAreaInfo |-> TRUE],
           readableText |->
             "System temporarily unavailable. Please check the configuration and try again."]>>,
     partitionMap |-> EmptyMap]

(***************************************************************************)
(* loadDocumentsJSON, from the JSON.parse result on.                       *)
(***************************************************************************)

\* The load rejected with the given error, producing no record at all.
Threw(kind) ==
    [status |-> "threw", error |-> kind, documents |-> <<>>, partitionMap |-> EmptyMap]

\* Variant: the length test of the endpoint check is left out.
hasValidEndpoints_NoLengthTest(jsonContent) == IsArray(Get(jsonContent, "endpoints"))

hasValidEndpoints(jsonContent) ==
    /\ IsArray(Get(jsonContent, "endpoints"))
    /\ Len(Get(jsonContent, "endpoints").v) > 0

hasValidAreas(jsonContent) ==
    /\ IsArray(Get(jsonContent, "areas"))
    /\ Len(Get(jsonContent, "areas").v) > 0

\* Variant: every endpoint that has a category is counted.
CountCategory_AnyCategory(endpoints, codes) ==
    Cardinality({i \in 1..Len(endpoints) : Get(endpoints[i], "category").t = "number"})

\* endpoints.filter(ep => codes.includes(ep.category)).length
CountCategory(endpoints, codes) ==
    Cardinality({i \in 1..Len(endpoints) :
                    /\ Get(endpoints[i], "category").t = "number"
                    /\ Get(endpoints[i], "category").v \in codes})

\* ep.category is read of every endpoint, outside any try block.
StatisticsThrow(endpoints) == \E i \in 1..Len(endpoints) : GetThrows(endpoints[i])

\* jsonContent.endpoints?.length || 0
TotalEndpointsOf(jsonContent) ==
    OrElse(GetOpt(Get(jsonContent, "endpoints"), "length"), Num(0)).v

\* Variant: the areas are counted after validation instead of as declared.
TotalAreasOf_MappedOnly(jsonContent) == Len(buildAreaPartitionMaps(jsonContent))

\* jsonContent.areas?.length || 0
TotalAreasOf(jsonContent) ==
    OrElse(GetOpt(Get(jsonContent, "areas"), "length"), Num(0)).v

\* Variant: totalPartitions is taken from the areas instead of the map.
Statistics_PartitionsFromAreas(jsonContent, globalPartitionMap) ==
    [totalEndpoints |-> TotalEndpointsOf(jsonContent),
     totalAreas |-> TotalAreasOf(jsonContent),
     totalPartitions |-> TotalAreasOf(jsonContent),
     sensorCount |-> CountCategory(Get(jsonContent, "endpoints").v, {18}),
     actuatorCount |-> CountCategory(Get(jsonContent, "endpoints").v, {11, 12, 15}),
     controllerCount |-> CountCategory(Get(jsonContent, "endpoints").v, {0, 1, 2})]

Statistics(jsonContent, globalPartitionMap) ==
    LET endpoints == Get(jsonContent, "endpoints")
    IN [totalEndpoints |-> TotalEndpointsOf(jsonContent),
        totalAreas |-> TotalAreasOf(jsonContent),
        totalPartitions |-> Cardinality(DOMAIN globalPartitionMap),
        sensorCount |-> CountCategory(endpoints.v, {18}),
        actuatorCount |-> CountCategory(endpoints.v, {11, 12, 15}),
        controllerCount |-> CountCategory(endpoints.v, {0, 1, 2})]

\* The summary record and the value returned with it.
SummaryResult(jsonContent, globalPartitionMap) ==
    LET meta == Get(jsonContent, "metadata")
    IN [status |-> "returned",
        error |-> "none",
        documents |->
          <<[pageContent |-> [type |-> "installation-config",
                              metadata |-> OrElse(meta, Obj(EmptyMap)),
                              statistics |-> Statistics(jsonContent, globalPartitionMap),
                              endpoints |-> Get(jsonContent, "endpoints"),
                              areas |-> Get(jsonContent, "areas"),
                              globalPartitionMap |-> globalPartitionMap],
             metadata |-> [source |-> "installation-config.json",
                           type |-> "installation-config",
                           isValid |-> TRUE,
                           name |-> GetOpt(meta, "name"),
                           chunkType |-> "summary",
                           installationName |->
                               OrElse(GetOpt(meta, "name"),
                                      Str(<<"installation-config">>)),
                           revision |-> GetOpt(meta, "revision"),
                           deviceType |-> "installation",
                           totalEndpoints |-> TotalEndpointsOf(jsonContent),
                           totalAreas |-> TotalAreasOf(jsonContent),
                           hasPartitions |-> Cardinality(DOMAIN globalPartitionMap) > 0,
                           hasAreaInfo |-> hasValidAreas(jsonContent),
                           major |-> GetOpt(meta, "major"),
                           minor |-> GetOpt(meta, "minor")]]>>,
        partitionMap |-> globalPartitionMap]

\* The locals of the load that the mapping stage computes.
MappingOf(jsonContent) ==
    LET areaPartitionMaps == IF hasValidAreas(jsonContent)
                             THEN buildAreaPartitionMaps(jsonContent) ELSE <<>>
        built == IF hasValidAreas(jsonContent)
                 THEN buildEndpointAreaRelations(jsonContent, areaPartitionMaps)
                 ELSE [threw |-> FALSE, relations |-> EmptyMap]
    IN [globalPartitionMap |-> buildGlobalPartitionMap(jsonContent),
        areaPartitionMaps |-> areaPartitionMaps,
        threw |-> built.threw,
        endpointAreaRelations |-> built.relations]

NoMapping ==
    [globalPartitionMap |-> EmptyMap, areaPartitionMaps |-> <<>>,
     threw |-> FALSE, endpointAreaRelations |-> EmptyMap]

\* The root check: a falsy value or one whose typeof is not 'object'.
InvalidRoot(jsonContent) == ~Truthy(jsonContent) \/ ~TypeofObject(jsonContent)

\* Variant: the summary is built from the document without its invalid areas.
LoadParsed_SummaryOfValidAreas(jsonContent, suffix) ==
    IF InvalidRoot(jsonContent) THEN Threw("InvalidRoot")
    ELSE IF ~hasValidEndpoints(jsonContent)
    THEN getFallbackDocument("No valid endpoints in configuration", suffix)
    ELSE LET m == MappingOf(jsonContent)
             cleaned == Obj([f \in DOMAIN jsonContent.v |->
                               IF f = "areas" /\ IsArray(jsonContent.v[f])
                               THEN Arr(SelectSeq(jsonContent.v[f].v, AreaIsValid))
                               ELSE jsonContent.v[f]])
         IN IF m.threw \/ StatisticsThrow(Get(jsonContent, "endpoints").v)
            THEN Threw("TypeError")
            ELSE SummaryResult(cleaned, m.globalPartitionMap)

\* Variant: the fallback is returned with the partition map of the document.
LoadParsed_FallbackCarriesMap(jsonContent, suffix) ==
    IF InvalidRoot(jsonContent) THEN Threw("InvalidRoot")
    ELSE IF ~hasValidEndpoints(jsonContent)
    THEN [getFallbackDocument("No valid endpoints in configuration", suffix)
             EXCEPT !.partitionMap = buildGlobalPartitionMap(jsonContent)]
    ELSE LET m == MappingOf(jsonContent)
         IN IF m.threw \/ StatisticsThrow(Get(jsonContent, "endpoints").v)
            THEN Threw("TypeError")
            ELSE SummaryResult(jsonContent, m.globalPartitionMap)

\* Everything after a successful JSON.parse.
LoadParsed(jsonContent, suffix) ==
    IF InvalidRoot(jsonContent) THEN Threw("InvalidRoot")
    ELSE IF ~hasValidEndpoints(jsonContent)
    THEN getFallbackDocument("No valid endpoints in configuration", suffix)
    ELSE LET m == MappingOf(jsonContent)
         IN IF m.threw \/ StatisticsThrow(Get(jsonContent, "endpoints").v)
            THEN Threw("TypeError")
            ELSE SummaryResult(jsonContent, m.globalPartitionMap)

(***************************************************************************)
(* The content of the configuration file.  A text is a sequence of         *)
(* lexemes: white space, a bare word that is no JSON, or the text of one   *)
(* JSON value.                                                             *)
(***************************************************************************)
WS == [k |-> "ws"]
Word(w) == [k |-> "word", w |-> w]
Val(x) == [k |-> "value", x |-> x]

RECURSIVE TrimStart(_)
TrimStart(text) ==
    IF Len(text) > 0 /\ Head(text) = WS THEN TrimStart(Tail(text)) ELSE text

RECURSIVE TrimEnd(_)
TrimEnd(text) ==
    IF Len(text) > 0 /\ text[Len(text)] = WS
    THEN TrimEnd(SubSeq(text, 1, Len(text) - 1)) ELSE text

\* rawContent.trim()
Trim(text) == TrimEnd(TrimStart(text))

\* JSON.parse(text): white space around the value is accepted; anything but
\* exactly one value is a SyntaxError.
JSONParse(text) ==
    LET body == Trim(text)
    IN IF Len(body) = 1 /\ body[1].k = "value"
       THEN [ok |-> TRUE, value |-> body[1].x]
       ELSE [ok |-> FALSE, value |-> Undef]

\* loadDocumentsJSON once fs.readFile has settled.
LoadRead(readable, content, suffix) ==
    IF ~readable THEN Threw("MissingSource")
    ELSE IF Len(content) = 0 \/ Len(Trim(content)) = 0 THEN Threw("EmptyInput")
    ELSE IF ~JSONParse(content).ok THEN Threw("MalformedInput")
    ELSE LoadParsed(JSONParse(content).value, suffix)

(***************************************************************************)
(* filterByContentRelevance                                                *)
(***************************************************************************)
LowerCaseMap ==
    [c \in {"A", "B", "C", "D", "E", "I", "S", "T", "X", "Y", "Z"} |->
        CASE c = "A" -> "a" [] c = "B" -> "b" [] c = "C" -> "c" [] c = "D" -> "d"
          [] c = "E" -> "e" [] c = "I" -> "i" [] c = "S" -> "s" [] c = "T" -> "t"
          [] c = "X" -> "x" [] c = "Y" -> "y" [] c = "Z" -> "z"]

\* s.toLowerCase()
ToLowerCase(s) ==
    [i \in 1..Len(s) |-> IF s[i] \in DOMAIN LowerCaseMap THEN LowerCaseMap[s[i]] ELSE s[i]]

IsSpace(c) == c \in {" ", "\t", "\n"}

RECURSIVE SkipSpaces(_)
SkipSpaces(s) == IF Len(s) > 0 /\ IsSpace(Head(s)) THEN SkipSpaces(Tail(s)) ELSE s

\* s.split(/\s+/): the pieces between maximal runs of white space; a leading
\* or trailing run leaves an empty piece.
RECURSIVE SplitFrom(_, _)
SplitFrom(s, piece) ==
    IF Len(s) = 0 THEN <<piece>>
    ELSE IF IsSpace(Head(s)) THEN <<piece>> \o SplitFrom(SkipSpaces(s), <<>>)
    ELSE SplitFrom(Tail(s), Append(piece, Head(s)))

SplitSpaces(s) == SplitFrom(s, <<>>)

\* terms.filter(term => term.length > 2)
RECURSIVE LongTerms(_)
LongTerms(terms) ==
    IF Len(terms) = 0 THEN <<>>
    ELSE (IF Len(Head(terms)) > 2 THEN <<Head(terms)>> ELSE <<>>) \o LongTerms(Tail(terms))

\* query.toLowerCase().split(/\s+/).filter(term => term.length > 2)
QueryTerms(query) == LongTerms(SplitSpaces(ToLowerCase(query)))

\* content.includes(term)
IncludesText(content, term) ==
    \E i \in 0..(Len(content) - Len(term)) : SubSeq(content, i + 1, i + Len(term)) = term

\* The number of entries of queryTerms found in the lower-cased payload.
Score(doc, queryTerms) ==
    Cardinality({i \in 1..Len(queryTerms) :
                    IncludesText(ToLowerCase(doc.pageContent), queryTerms[i])})

\* relevanceScore = score / queryTerms.length, kept as the fraction num / den.
\* With no query term it is 0 / 0, which JavaScript evaluates to NaN.
RelevanceScore(doc, queryTerms) ==
    [num |-> Score(doc, queryTerms), den |-> Len(queryTerms)]

IsNaN(relevanceScore) == relevanceScore.den = 0 /\ relevanceScore.num = 0

\* relevanceScore >= threshold, the threshold given in hundredths; NaN >= x is
\* false for every x.
ScoreAtLeast(relevanceScore, threshold) ==
    /\ ~IsNaN(relevanceScore)
    /\ relevanceScore.num * 100 >= threshold * relevanceScore.den

\* Variant: the comparison is strict.
Retained_Strict(doc, queryTerms, threshold) ==
    /\ Len(queryTerms) > 0
    /\ Score(doc, queryTerms) * 100 > threshold * Len(queryTerms)

\* Variant: the score is compared without being divided by the term count.
Retained_NoNormalise(doc, queryTerms, threshold) ==
    /\ Len(queryTerms) > 0
    /\ Score(doc, queryTerms) * 100 >= threshold

\* The predicate of docs.filter: relevanceScore >= threshold.
Retained(doc, queryTerms, threshold) ==
    ScoreAtLeast(RelevanceScore(doc, queryTerms), threshold)

\* Variant: each retained record is put in front of the ones retained before.
RECURSIVE FilterDocs_NewestFirst(_, _, _)
FilterDocs_NewestFirst(docs, queryTerms, threshold) ==
    IF Len(docs) = 0 THEN <<>>
    ELSE FilterDocs_NewestFirst(Tail(docs), queryTerms, threshold)
         \o (IF Retained(Head(docs), queryTerms, threshold) THEN <<Head(docs)>> ELSE <<>>)

RECURSIVE FilterDocs(_, _, _)
FilterDocs(docs, queryTerms, threshold) ==
    IF Len(docs) = 0 THEN <<>>
    ELSE (IF Retained(Head(docs), queryTerms, threshold) THEN <<Head(docs)>> ELSE <<>>)
         \o FilterDocs(Tail(docs), queryTerms, threshold)

filterByContentRelevance(docs, query, threshold) ==
    FilterDocs(docs, QueryTerms(query), threshold)

(***************************************************************************)
(* The inputs the model is run on.                                         *)
(***************************************************************************)
P1 == <<"p", "a", "r", "t", "i", "t", "i", "o", "n", "-", "1">>
P2 == <<"p", "a", "r", "t", "i", "t", "i", "o", "n", "-", "2">>
P3 == <<"p", "3">>
E1 == <<"e", "1">>
E2 == <<"e", "2">>
ELong == <<"e", "n", "d", "p", "o", "i", "n", "t", "-", "3">>

EndpointEntries ==
    { Obj([uuid |-> Str(E1), name |-> Str(<<"L", "a", "m", "p">>),
           category |-> Num(18), partitions |-> Arr(<<Str(P1)>>)]),
      Obj([uuid |-> Str(E1), category |-> Num(11),
           partitions |-> Arr(<<Str(P3), Str(P2)>>)]),
      Obj([uuid |-> Str(ELong), category |-> Num(0), partitions |-> Arr(<<Str(P2)>>)]),
      Null,
      Obj([uuid |-> Str(E2), name |-> Str(<<"H", "u", "b">>), category |-> Num(7)]) }

AreaEntries ==
    { Obj([uuid |-> Str(<<"a", "1">>), name |-> Str(<<"K", "i", "t">>),
           partitions |-> Arr(<<Str(P1)>>)]),
      Obj([uuid |-> Str(<<"a", "2">>), name |-> Str(<<"H", "a", "l", "l">>),
           partitions |-> Arr(<<Obj([uuid |-> Str(P2), name |-> Str(<<"Z">>)]),
                                Str(P3), Str(P1)>>)]),
      Obj([uuid |-> Str(<<"a", "3">>), partitions |-> Arr(<<Str(P2)>>)]),
      Num(5),
      Obj([uuid |-> Str(<<"a", "4">>), name |-> Str(<<"A", "t", "t">>),
           partitions |-> Arr(<<Null, Obj([name |-> Str(<<"N">>)])>>)]),
      Obj([uuid |-> Str(<<"a", "5">>), name |-> Str(<<"Y", "d">>)]) }

\* The `endpoints` field: absent, not a sequence, or a sequence of entries.
EndpointsFields ==
    {Undef, Str(<<"a", "b">>), Obj([length |-> Num(2)])}
    \cup {Arr(s) : s \in SeqUpTo(EndpointEntries, MaxEndpoints)}

\* The `areas` field: absent, not a sequence, or a sequence of entries.
AreasFields ==
    {Undef, Str(<<"a", "b">>)} \cup {Arr(s) : s \in SeqUpTo(AreaEntries, MaxAreas)}

\* Further area entries: a null, an area with a name and no uuid, and an
\* area whose `partitions` is an identifier instead of a sequence.
OddAreaEntries ==
    { Null,
      Obj([name |-> Str(<<"L", "o", "f", "t">>), partitions |-> Arr(<<Str(P1)>>)]),
      Obj([uuid |-> Str(<<"a", "6">>), name |-> Str(<<"B", "a", "r", "n">>),
           partitions |-> Str(P1)]),
      Obj([uuid |-> Str(<<"a", "7">>), name |-> Str(<<"T", "w", "i", "n">>),
           partitions |-> Arr(<<Str(P1), Str(P2),
                                Obj([uuid |-> Str(P1), name |-> Str(<<"O", "n", "e">>)])>>)]) }

\* Further endpoint entries: one without uuid, one whose `partitions` is an
\* identifier instead of a sequence, one whose `partitions` is an empty
\* sequence and one that lists its partitions in another order than the
\* areas do.
OddEndpointEntries ==
    { Obj([name |-> Str(<<"G", "h", "o", "s", "t">>), category |-> Num(18),
           partitions |-> Arr(<<Str(P1)>>)]),
      Obj([uuid |-> Str(E2), category |-> Num(15), partitions |-> Str(P3)]),
      Obj([uuid |-> Str(E1), name |-> Str(<<"F", "a", "n">>), category |-> Num(12),
           partitions |-> Arr(<<>>)]),
      Obj([uuid |-> Str(E2), name |-> Str(<<"P", "i", "r">>), category |-> Num(1),
           partitions |-> Arr(<<Str(P2), Str(P1)>>)]) }

\* The keyed records a configuration file may hold.
Documents ==
    {Obj([endpoints |-> e, areas |-> a]) : e \in EndpointsFields, a \in AreasFields}
    \cup {Obj([endpoints |-> Arr(<<e>>), areas |-> Arr(s)]) :
            e \in EndpointEntries \cup OddEndpointEntries,
            s \in SeqUpTo(OddAreaEntries, MaxAreas) \ {<<>>}}
    \cup {Obj([endpoints |-> Arr(s), areas |-> a]) :
            s \in UNION {{<<o, e>>, <<e, o>>} :
                            o \in OddEndpointEntries, e \in EndpointEntries},
            a \in {Undef} \cup {Arr(<<x>>) : x \in AreaEntries}}
    \cup {Obj([endpoints |-> Arr(<<e>>), areas |-> Undef,
               metadata |-> Obj([name |-> Str(<<"H", "o", "m", "e">>), major |-> Num(2)])]) :
            e \in EndpointEntries}

\* The parsed values that are no keyed record.
NonRecordRoots ==
    {Null, Num(0), Num(5), Str(<<>>), Str(<<"x">>), Bool(TRUE), Bool(FALSE),
     Arr(<<>>), Arr(<<Num(1)>>)}

\* The texts the file may hold.
RawContents ==
    {<<>>, <<WS>>, <<WS, WS>>, <<Word("not"), WS, Word("json")>>,
     <<Val(Num(1)), WS, Val(Num(2))>>, <<WS, Word("{")>>}
    \cup {<<Val(x)>> : x \in Documents \cup NonRecordRoots}
    \cup {<<WS, Val(x), WS>> : x \in NonRecordRoots}

\* The payloads of the retrieved candidates.
PageContents ==
    { <<"x", "A", "b", "c", "x">>,
      <<"a", "b", "c", " ", "X", "Y", "Z">>,
      <<"z", "z", "z">>,
      <<>> }

\* The query strings.
Queries ==
    { <<>>,
      <<"i", "s", " ", "i", "t">>,
      <<"a", "b", "c">>,
      <<" ", "A", "B", "C", " ", "d", "e">>,
      <<"a", "b", "c", "\t", " ", "x", "y", "z">>,
      <<"a", "b", "c", " ", "a", "b", "c", " ", "t", "t", "t">>,
      <<"t", "t", "t", "\n">> }

\* The thresholds, in hundredths: 0, the two defaults 0.2 and 0.3, 0.5, 1, 1.01.
Thresholds == {0, 20, 30, 50, 100, 101}

MaxDocs == 2

CandidateLists == SeqUpTo({[pageContent |-> c] : c \in PageContents}, MaxDocs)

(***************************************************************************)
(* State.  loadDocumentsJSON runs up to its only await (fs.readFile) when  *)
(* called and runs to completion, in one turn of the event loop, when the  *)
(* read has settled.  filterByContentRelevance is synchronous.             *)
(***************************************************************************)
VARIABLES
    fileReadable,   \* whether fs.readFile(filePath) succeeds
    rawContent,     \* the text of the file
    loadPc,         \* "idle", "reading", "done"
    parsedContent,  \* jsonContent, once parsed
    mapping,        \* globalPartitionMap, areaPartitionMaps, endpointAreaRelations
    loadResult,     \* how loadDocumentsJSON settled, and with what
    candidates,     \* docs handed to filterByContentRelevance
    userQuery,      \* its query
    minScore,       \* its threshold, in hundredths
    filterPc,       \* "idle", "done"
    filtered,       \* the sequence it returned
    scores,         \* the relevanceScore it computed for each candidate
    rejectionMode,  \* what the runtime does with an unhandled rejection
    mainPc,         \* where main stands: the await it is suspended at
    stageFailed,    \* the stage of runRgaSytsem that failed, or "none"
    response,       \* what runRgaSytsem returned: "none" while it runs
    saveArg,        \* the response saveResponse was called with
    saved,          \* the response written to the output file
    mainCaught      \* whether the catch block of main ran

loadVars == <<fileReadable, rawContent, loadPc, parsedContent, mapping, loadResult>>
filterVars == <<candidates, userQuery, minScore, filterPc, filtered, scores>>
ragVars == <<rejectionMode, mainPc, stageFailed, response, saveArg, saved, mainCaught>>
vars == <<loadVars, filterVars, ragVars>>

NotYet == [status |-> "pending", error |-> "none", documents |-> <<>>,
           partitionMap |-> EmptyMap]

LoadIdle ==
    /\ loadPc = "idle"
    /\ parsedContent = Undef
    /\ mapping = NoMapping
    /\ loadResult = NotYet

FilterIdle ==
    /\ filterPc = "idle"
    /\ filtered = <<>>
    /\ scores = <<>>

\* main has not been called.
RagIdle ==
    /\ mainPc = "idle"
    /\ stageFailed = "none"
    /\ response = "none"
    /\ saveArg = "none"
    /\ saved = "none"
    /\ mainCaught = FALSE

\* The loader on every file of the input set.
Init ==
    /\ fileReadable \in BOOLEAN
    /\ rawContent \in RawContents
    /\ (~fileReadable => rawContent = <<>>)
    /\ LoadIdle
    /\ candidates = <<>> /\ userQuery = <<>> /\ minScore = 30
    /\ FilterIdle
    /\ rejectionMode = "throw"
    /\ RagIdle

\* loadDocumentsJSON() is called: it starts fs.readFile and suspends.
LoadStart ==
    /\ loadPc = "idle"
    /\ loadPc' = "reading"
    /\ UNCHANGED <<fileReadable, rawContent, parsedContent, mapping, loadResult>>
    /\ UNCHANGED filterVars
    /\ UNCHANGED ragVars

\* fs.readFile rejected: the load rethrows.
LoadReadFailedStep ==
    /\ loadPc = "reading"
    /\ ~fileReadable
    /\ loadResult' = LoadRead(FALSE, rawContent, "")
    /\ loadPc' = "done"
    /\ UNCHANGED <<fileReadable, rawContent, parsedContent, mapping>>
    /\ UNCHANGED filterVars

LoadReadFailed == LoadReadFailedStep /\ UNCHANGED ragVars

\* fs.readFile resolved: validation, mapping, statistics and synthesis.
LoadResumeStep ==
    /\ loadPc = "reading"
    /\ fileReadable
    /\ \E suffix \in RandomSuffixes :
          loadResult' = LoadRead(TRUE, rawContent, suffix)
    /\ parsedContent' = IF Len(Trim(rawContent)) > 0 /\ JSONParse(rawContent).ok
                        THEN JSONParse(rawContent).value ELSE Undef
    /\ mapping' = IF /\ Len(Trim(rawContent)) > 0 /\ JSONParse(rawContent).ok
                     /\ ~InvalidRoot(JSONParse(rawContent).value)
                     /\ hasValidEndpoints(JSONParse(rawContent).value)
                  THEN MappingOf(JSONParse(rawContent).value)
                  ELSE NoMapping
    /\ loadPc' = "done"
    /\ UNCHANGED <<fileReadable, rawContent>>
    /\ UNCHANGED filterVars

LoadResume == LoadResumeStep /\ UNCHANGED ragVars

Next == LoadStart \/ LoadReadFailed \/ LoadResume

Spec == Init /\ [][Next]_vars

\* The relevance filter on every query, candidate list and threshold of the
\* input set.
FilterInit ==
    /\ fileReadable = FALSE /\ rawContent = <<>>
    /\ LoadIdle
    /\ candidates \in CandidateLists
    /\ userQuery \in Queries
    /\ minScore \in Thresholds
    /\ FilterIdle
    /\ rejectionMode = "throw"
    /\ RagIdle

\* filterByContentRelevance(candidates, userQuery, minScore) is called.
ApplyFilter ==
    /\ filterPc = "idle"
    /\ filtered' = filterByContentRelevance(candidates, userQuery, minScore)
    /\ scores' = [i \in 1..Len(candidates) |->
                    RelevanceScore(candidates[i], QueryTerms(userQuery))]
    /\ filterPc' = "done"
    /\ UNCHANGED <<candidates, userQuery, minScore>>
    /\ UNCHANGED loadVars
    /\ UNCHANGED ragVars

FilterNext == ApplyFilter

FilterSpec == FilterInit /\ [][FilterNext]_vars

(***************************************************************************)
(* main, runRgaSytsem and saveResponse.  Each action is one turn of the    *)
(* event loop: from the settling of the promise main is suspended at to    *)
(* its next await.  The load started by runRgaSytsem settles in turns of   *)
(* its own, between those of main.                                         *)
(***************************************************************************)

\* The configuration files the driver is run on: missing, blank, no JSON, a
\* sequence root, a record without endpoints, a null endpoint, a valid one.
RagContents ==
    { <<>>,
      <<WS>>,
      <<Word("not"), WS, Word("json")>>,
      <<Val(Null)>>,
      <<Val(Obj([areas |-> Arr(<<>>)]))>>,
      <<Val(Obj([endpoints |-> Arr(<<Null>>)]))>>,
      <<Val(Obj([endpoints |-> Arr(<<Obj([uuid |-> Str(E1), category |-> Num(18),
                                          partitions |-> Arr(<<Str(P1)>>)])>>),
                 areas |-> Arr(<<Obj([uuid |-> Str(<<"a", "1">>),
                                      name |-> Str(<<"K", "i", "t">>),
                                      partitions |-> Arr(<<Str(P1)>>)])>>)]))>> }

\* What an unhandled promise rejection does: the runtime raises it as an
\* uncaught exception and the process exits, or it only prints a warning.
RejectionModes == {"throw", "warn"}

RagInit ==
    /\ fileReadable \in BOOLEAN
    /\ rawContent \in RagContents
    /\ (~fileReadable => rawContent = <<>>)
    /\ LoadIdle
    /\ candidates = <<>> /\ userQuery = <<>> /\ minScore = 30
    /\ FilterIdle
    /\ rejectionMode \in RejectionModes
    /\ RagIdle

\* The catch block of runRgaSytsem: return { system: "error" }; main resumes
\* and calls saveResponse with it, which suspends at fs.mkdir.
ReturnError(stage) ==
    /\ stageFailed' = stage
    /\ response' = "error"
    /\ saveArg' = "error"
    /\ mainPc' = "mkdir"
    /\ UNCHANGED <<rejectionMode, saved, mainCaught>>

\* main calls runRgaSytsem, which calls loadDocumentsJSON() without awaiting
\* it (the load runs up to fs.readFile) and suspends at FaissStore.load.
RunStart ==
    /\ mainPc = "idle"
    /\ loadPc = "idle"
    /\ loadPc' = "reading"
    /\ mainPc' = "index"
    /\ UNCHANGED <<fileReadable, rawContent, parsedContent, mapping, loadResult>>
    /\ UNCHANGED filterVars
    /\ UNCHANGED <<rejectionMode, stageFailed, response, saveArg, saved, mainCaught>>

\* FaissStore.load settled: the retriever is built and invoked, or the
\* failure is caught.
IndexSettled ==
    /\ mainPc = "index"
    /\ \E ok \in BOOLEAN :
          IF ok THEN /\ mainPc' = "retrieve"
                     /\ UNCHANGED <<rejectionMode, stageFailed, response, saveArg,
                                    saved, mainCaught>>
          ELSE ReturnError("index")
    /\ UNCHANGED loadVars
    /\ UNCHANGED filterVars

\* retriever.invoke settled: the documents are filtered, the context is
\* joined and the chain is invoked; a failure of the retrieval or of the
\* filter is caught.
RetrievalSettled ==
    /\ mainPc = "retrieve"
    /\ \E outcome \in {"ok", "retrieve", "filter"} :
          IF outcome = "ok"
          THEN /\ mainPc' = "generate"
               /\ UNCHANGED <<rejectionMode, stageFailed, response, saveArg,
                              saved, mainCaught>>
          ELSE ReturnError(outcome)
    /\ UNCHANGED loadVars
    /\ UNCHANGED filterVars

\* chain.invoke settled: runRgaSytsem returns the response, or catches the
\* failure; main resumes and calls saveResponse, which suspends at fs.mkdir.
GenerationSettled ==
    /\ mainPc = "generate"
    /\ \E ok \in BOOLEAN :
          IF ok THEN /\ response' = "generated"
                     /\ saveArg' = "generated"
                     /\ mainPc' = "mkdir"
                     /\ UNCHANGED <<rejectionMode, stageFailed, saved, mainCaught>>
          ELSE ReturnError("generate")
    /\ UNCHANGED loadVars
    /\ UNCHANGED filterVars

\* The catch block of saveResponse rethrows and the catch block of main
\* logs: main ends.
SaveFailed ==
    /\ mainCaught' = TRUE
    /\ mainPc' = "done"
    /\ UNCHANGED <<rejectionMode, stageFailed, response, saveArg, saved>>

\* fs.mkdir settled: the file is written, or the failure is rethrown.
MkdirSettled ==
    /\ mainPc = "mkdir"
    /\ \E ok \in BOOLEAN :
          IF ok THEN /\ mainPc' = "write"
                     /\ UNCHANGED <<rejectionMode, stageFailed, response, saveArg,
                                    saved, mainCaught>>
          ELSE SaveFailed
    /\ UNCHANGED loadVars
    /\ UNCHANGED filterVars

\* fs.writeFile settled: saveResponse and main end, or the failure is
\* rethrown.
WriteSettled ==
    /\ mainPc = "write"
    /\ \E ok \in BOOLEAN :
          IF ok THEN /\ saved' = saveArg
                     /\ mainPc' = "done"
                     /\ UNCHANGED <<rejectionMode, stageFailed, response, saveArg,
                                    mainCaught>>
          ELSE SaveFailed
    /\ UNCHANGED loadVars
    /\ UNCHANGED filterVars

\* Variant: the load is awaited inside the try block, so that its failure
\* is caught by runRgaSytsem.
LoadSettles_Caught(result) ==
    IF result.status = "threw" /\ mainPc \in {"index", "retrieve", "generate"}
    THEN /\ response' = "error"
         /\ saveArg' = "error"
         /\ mainPc' = "mkdir"
         /\ UNCHANGED <<rejectionMode, stageFailed, saved, mainCaught>>
    ELSE UNCHANGED ragVars

\* The promise of the load settles.  Nothing awaits it and nothing handles
\* its rejection: a rejection is left to the runtime, which ends the
\* process, with main wherever it stands, or goes on.
LoadSettles(result) ==
    IF result.status = "threw" /\ rejectionMode = "throw" /\ mainPc # "done"
    THEN /\ mainPc' = "killed"
         /\ UNCHANGED <<rejectionMode, stageFailed, response, saveArg, saved, mainCaught>>
    ELSE UNCHANGED ragVars

RagLoadReadFailed == LoadReadFailedStep /\ LoadSettles(loadResult')

RagLoadResume == LoadResumeStep /\ LoadSettles(loadResult')

RagNext ==
    \/ RunStart
    \/ IndexSettled
    \/ RetrievalSettled
    \/ GenerationSettled
    \/ MkdirSettled
    \/ WriteSettled
    \/ RagLoadReadFailed
    \/ RagLoadResume

RagSpec == RagInit /\ [][RagNext]_vars

(***************************************************************************)
(* Properties of the loader (specification Spec).                          *)
(***************************************************************************)
LoadDone == loadPc = "done"

\* The file was read and held a non-blank text that parsed.
Parsed == fileReadable /\ Len(Trim(rawContent)) > 0 /\ JSONParse(rawContent).ok

\* The parsed value is a keyed record (neither a primitive, null nor a sequence).
KeyedRecord(x) == x.t = "object"

IsFallbackResult(r) ==
    /\ r.status = "returned"
    /\ Len(r.documents) = 1
    /\ r.documents[1].metadata.isValid = FALSE
    /\ r.documents[1].metadata.chunkType = "fallback"

IsSummaryResult(r) ==
    /\ r.status = "returned"
    /\ Len(r.documents) = 1
    /\ r.documents[1].metadata.isValid = TRUE
    /\ r.documents[1].metadata.chunkType = "summary"

\* `endpoints` is missing, is not a sequence, or is an empty sequence.
NoUsableEndpoints(x) ==
    \/ Get(x, "endpoints").t = "undefined"
    \/ Get(x, "endpoints").t # "array"
    \/ Get(x, "endpoints").v = <<>>

\* C1: a keyed record whose `endpoints` is missing, not a sequence or empty
\* makes the load return (not throw) exactly one record, which is the
\* fallback record: isValid = false, chunkType = "fallback".
C1_FallbackOnNoEndpoints ==
    (LoadDone /\ Parsed /\ KeyedRecord(parsedContent) /\ NoUsableEndpoints(parsedContent))
        => IsFallbackResult(loadResult)

C1_Witness ==
    /\ LoadDone /\ Parsed /\ KeyedRecord(parsedContent)
    /\ Get(parsedContent, "endpoints") = Arr(<<>>)
    /\ IsFallbackResult(loadResult)

\* A document as the input contract describes it: a keyed record whose
\* `endpoints` is a non-empty sequence of keyed records (their `partitions`,
\* when present, a sequence) and whose `areas` is absent or a sequence.
ValidDocument(x) ==
    /\ KeyedRecord(x)
    /\ Get(x, "endpoints").t = "array"
    /\ Len(Get(x, "endpoints").v) >= 1
    /\ \A i \in 1..Len(Get(x, "endpoints").v) :
          LET ep == Get(x, "endpoints").v[i]
          IN KeyedRecord(ep) /\ Get(ep, "partitions").t \in {"undefined", "array"}
    /\ Get(x, "areas").t \in {"undefined", "array"}

DeclaredAreas(x) == IF Get(x, "areas").t = "array" THEN Len(Get(x, "areas").v) ELSE 0

\* C2: a valid document with at least one endpoint yields exactly one record,
\* the summary record (chunkType = "summary", isValid = true), whose
\* totalEndpoints and totalAreas are the lengths of `endpoints` and `areas`.
C2_OneSummaryWithCounts ==
    (LoadDone /\ Parsed /\ ValidDocument(parsedContent))
        => /\ IsSummaryResult(loadResult)
           /\ loadResult.documents[1].metadata.totalEndpoints
                 = Len(Get(parsedContent, "endpoints").v)
           /\ loadResult.documents[1].metadata.totalAreas = DeclaredAreas(parsedContent)

\* Two endpoints, and two areas of which one fails the area validation.
C2_Witness ==
    /\ LoadDone /\ Parsed /\ ValidDocument(parsedContent)
    /\ IsSummaryResult(loadResult)
    /\ loadResult.documents[1].metadata.totalEndpoints = 2
    /\ loadResult.documents[1].metadata.totalAreas = 2
    /\ Len(mapping.areaPartitionMaps) = 1

NothingProduced(r) == r.status = "threw" /\ r.documents = <<>>

\* C3: the four fatal conditions, tested in this order, each abort the load
\* with their own error and no record: unreadable source -> MissingSource;
\* blank content -> EmptyInput; unparsable content -> MalformedInput; a parsed
\* value that is no keyed record -> InvalidRoot; and a record is returned only
\* when all four tests pass.
C3_FatalKindsInOrder ==
    LoadDone =>
        /\ (~fileReadable) => (NothingProduced(loadResult) /\ loadResult.error = "MissingSource")
        /\ (fileReadable /\ Len(Trim(rawContent)) = 0)
              => (NothingProduced(loadResult) /\ loadResult.error = "EmptyInput")
        /\ (fileReadable /\ Len(Trim(rawContent)) > 0 /\ ~JSONParse(rawContent).ok)
              => (NothingProduced(loadResult) /\ loadResult.error = "MalformedInput")
        /\ (Parsed /\ ~KeyedRecord(JSONParse(rawContent).value))
              => (NothingProduced(loadResult) /\ loadResult.error = "InvalidRoot")
        /\ (loadResult.status = "returned")
              => (Parsed /\ KeyedRecord(JSONParse(rawContent).value))

\* C4: "at least one record, always": whatever the input, and whenever an
\* upstream step fails hard, the load yields one record (the fallback).
C4_AtLeastOneRecordAlways ==
    LoadDone =>
        /\ Len(loadResult.documents) >= 1
        /\ loadResult.status = "returned"

\* C5: a parsed value that is no keyed record (null, number, string, boolean,
\* sequence) makes the load fail with InvalidRoot, producing neither a
\* summary nor a fallback record.
C5_NonRecordRootIsInvalidRoot ==
    (LoadDone /\ Parsed /\ ~KeyedRecord(parsedContent))
        => (NothingProduced(loadResult) /\ loadResult.error = "InvalidRoot")

(***************************************************************************)
(* Properties of the mapping stage (specification Spec).                   *)
(***************************************************************************)

\* The mapping stage ran to its end for the parsed document.
Mapped ==
    /\ LoadDone /\ Parsed
    /\ ~InvalidRoot(parsedContent) /\ hasValidEndpoints(parsedContent)
    /\ ~mapping.threw

EndpointsOfDoc == Get(parsedContent, "endpoints").v

\* The partition identifiers an endpoint entry declares.
DeclaredPartitions(endpoint) ==
    IF Get(endpoint, "partitions").t = "array"
    THEN {Get(endpoint, "partitions").v[j] : j \in 1..Len(Get(endpoint, "partitions").v)}
    ELSE {}

\* The partition identifiers of an area map.
AreaPartitionIds(areaMap) ==
    {areaMap.partitions[j].uuid : j \in 1..Len(areaMap.partitions)}

Intersects(endpoint, areaMap) ==
    DeclaredPartitions(endpoint) \cap AreaPartitionIds(areaMap) # {}

\* The indices of the area maps that share a partition with the endpoint.
MatchingAreas(endpoint) ==
    {k \in 1..Len(mapping.areaPartitionMaps) :
        Intersects(endpoint, mapping.areaPartitionMaps[k])}

\* The endpoint entries that carry identifier u and share a partition with
\* some area.
MatchingEntries(u) ==
    {i \in 1..Len(EndpointsOfDoc) :
        /\ ~EndpointSkipped(EndpointsOfDoc[i])
        /\ Get(EndpointsOfDoc[i], "uuid") = u
        /\ MatchingAreas(EndpointsOfDoc[i]) # {}}

Least(S) == CHOOSE m \in S : \A n \in S : m <= n

\* The positions, in the area's own partition list, of the partitions the
\* endpoint declares.
SharedPositions(endpoint, areaMap) ==
    {j \in 1..Len(areaMap.partitions) :
        areaMap.partitions[j].uuid \in DeclaredPartitions(endpoint)}

\* C6: one relation at most is kept per endpoint identifier; it relates the
\* endpoint to the first area, in area-map order, that shares a partition
\* with it, and carries that area's shared partitions only: a later matching
\* area neither replaces the relation nor adds its partitions to it.
C6_FirstMatchingAreaWins ==
    Mapped =>
        \A u \in DOMAIN mapping.endpointAreaRelations :
            /\ MatchingEntries(u) # {}
            /\ LET endpoint == EndpointsOfDoc[Least(MatchingEntries(u))]
                   first == mapping.areaPartitionMaps[Least(MatchingAreas(endpoint))]
                   rel == mapping.endpointAreaRelations[u]
               IN /\ rel.areaUuid = first.areaUuid
                  /\ rel.areaName = first.areaName
                  /\ {rel.partitionUuids[j] : j \in 1..Len(rel.partitionUuids)}
                        = DeclaredPartitions(endpoint) \cap AreaPartitionIds(first)
                  /\ Len(rel.partitionUuids) = Cardinality(SharedPositions(endpoint, first))
                  /\ {rel.location[j] : j \in 1..Len(rel.location)}
                        = {first.partitions[j].name : j \in SharedPositions(endpoint, first)}
                  /\ Len(rel.location) = Len(rel.partitionUuids)

\* An endpoint that shares partitions with two different areas.
C6_Witness ==
    /\ Mapped
    /\ \E u \in DOMAIN mapping.endpointAreaRelations :
          \E i \in MatchingEntries(u) :
             \E k1, k2 \in MatchingAreas(EndpointsOfDoc[i]) :
                /\ k1 < k2
                /\ mapping.areaPartitionMaps[k1].areaUuid
                      # mapping.areaPartitionMaps[k2].areaUuid
                /\ mapping.endpointAreaRelations[u].areaUuid
                      = mapping.areaPartitionMaps[k1].areaUuid

\* C7: every relation names an area of the supplied area maps, has a
\* non-empty partitionUuids, and each identifier in partitionUuids is both
\* declared by the endpoint and a member of that area's partition set.
C7_RelationsReferToSuppliedAreas ==
    Mapped =>
        \A u \in DOMAIN mapping.endpointAreaRelations :
            LET rel == mapping.endpointAreaRelations[u]
            IN /\ Len(rel.partitionUuids) > 0
               /\ \E k \in 1..Len(mapping.areaPartitionMaps) :
                    \E i \in 1..Len(EndpointsOfDoc) :
                       /\ rel.areaUuid = mapping.areaPartitionMaps[k].areaUuid
                       /\ rel.areaName = mapping.areaPartitionMaps[k].areaName
                       /\ Get(EndpointsOfDoc[i], "uuid") = u
                       /\ \A j \in 1..Len(rel.partitionUuids) :
                             /\ rel.partitionUuids[j] \in DeclaredPartitions(EndpointsOfDoc[i])
                             /\ rel.partitionUuids[j]
                                   \in AreaPartitionIds(mapping.areaPartitionMaps[k])

\* A relation to an area that also has partitions the endpoint does not declare.
C7_Witness ==
    /\ Mapped
    /\ \E u \in DOMAIN mapping.endpointAreaRelations :
          \E k \in 1..Len(mapping.areaPartitionMaps) :
             /\ mapping.endpointAreaRelations[u].areaUuid
                   = mapping.areaPartitionMaps[k].areaUuid
             /\ Len(mapping.endpointAreaRelations[u].partitionUuids)
                   < Len(mapping.areaPartitionMaps[k].partitions)

(***************************************************************************)
(* Properties of the global partition map (specification Spec).            *)
(***************************************************************************)

\* The partition entries the areas of the document declare.
DeclaredPartitionEntries(x) ==
    IF Get(x, "areas").t # "array" THEN {}
    ELSE UNION {
            LET parts == GetOpt(Get(x, "areas").v[i], "partitions")
            IN IF parts.t = "array" THEN {parts.v[j] : j \in 1..Len(parts.v)} ELSE {} :
            i \in 1..Len(Get(x, "areas").v) }

\* An entry the resolver can enter in the map: an identifier string, or an
\* object that has both a uuid and a name.
Resolvable(entry) ==
    \/ entry.t = "string"
    \/ entry.t = "object" /\ Truthy(Get(entry, "uuid")) /\ Truthy(Get(entry, "name"))

MapSize(map) == Cardinality(DOMAIN map)

C9_PartitionFacetsMirrorMap ==
    (LoadDone /\ IsSummaryResult(loadResult)) =>
        /\ loadResult.documents[1].metadata.hasPartitions
              = (MapSize(mapping.globalPartitionMap) > 0)
        /\ loadResult.documents[1].pageContent.statistics.totalPartitions
              = MapSize(mapping.globalPartitionMap)
        /\ loadResult.partitionMap = mapping.globalPartitionMap

\* A summary record of a document with two distinct partitions.
C9_Witness ==
    /\ LoadDone /\ IsSummaryResult(loadResult)
    /\ MapSize(mapping.globalPartitionMap) = 2
    /\ loadResult.documents[1].metadata.hasPartitions

(***************************************************************************)
(* Properties of the relevance filter (specification FilterSpec).          *)
(***************************************************************************)
FilterDone == filterPc = "done"

\* C10: with threshold 0 the filter returns its input unchanged, whatever
\* the query, also when the query has no token longer than 2 characters.
C10_ThresholdZeroKeepsAll ==
    (FilterDone /\ minScore = 0) => filtered = candidates

\* The usable tokens of the query, as the claims describe them.
UsableTokens == QueryTerms(userQuery)

\* The token occurs somewhere in the lower-cased payload of the candidate.
OccursIn(token, candidate) ==
    LET payload == ToLowerCase(candidate.pageContent)
    IN \E a \in 0..Len(payload) :
          /\ a + Len(token) <= Len(payload)
          /\ \A j \in 1..Len(token) : payload[a + j] = token[j]

Range(seq) == {seq[i] : i \in 1..Len(seq)}

\* C11: for a query with a token longer than 2 characters, a candidate whose
\* payload contains every such token scores exactly 1 and is retained for
\* every threshold <= 1; one that contains none scores exactly 0 and is
\* dropped for every threshold > 0.
C11_AllTokensKeptNoTokenDropped ==
    (FilterDone /\ Len(UsableTokens) > 0) =>
        \A i \in 1..Len(candidates) :
            /\ (\A t \in Range(UsableTokens) : OccursIn(t, candidates[i]))
                  => /\ scores[i].num = scores[i].den /\ scores[i].den > 0
                     /\ (minScore <= 100 => candidates[i] \in Range(filtered))
            /\ (\A t \in Range(UsableTokens) : ~OccursIn(t, candidates[i]))
                  => /\ scores[i].num = 0 /\ scores[i].den > 0
                     /\ (minScore > 0 => candidates[i] \notin Range(filtered))

\* Threshold exactly 1: a candidate with every token is kept, next to one
\* with no token, which is dropped.
C11_Witness ==
    /\ FilterDone /\ Len(UsableTokens) = 2 /\ minScore = 100
    /\ Len(candidates) = 2 /\ Len(filtered) = 1
    /\ \A t \in Range(UsableTokens) : OccursIn(t, filtered[1])
    /\ \E i \in 1..2 : \A t \in Range(UsableTokens) : ~OccursIn(t, candidates[i])

\* C12: with a threshold above 1 the filter returns the empty sequence,
\* whatever the query and the candidates.
C12_ThresholdAboveOneKeepsNone ==
    (FilterDone /\ minScore > 100) => filtered = <<>>

\* A candidate that contains every token of the query is dropped at 1.01.
C12_Witness ==
    /\ FilterDone /\ minScore > 100 /\ filtered = <<>>
    /\ Len(UsableTokens) > 0
    /\ \E i \in 1..Len(candidates) :
          \A t \in Range(UsableTokens) : OccursIn(t, candidates[i])

\* C13: the score of a candidate is the number of distinct usable query
\* tokens that occur in its payload, divided by the total number of usable
\* tokens; it lies in [0, 1]; a token repeated in the query counts once.
\* Stated for queries that have a usable token, where the quotient exists.
C13_ScoreCountsDistinctTokens ==
    (FilterDone /\ Len(UsableTokens) > 0) =>
        \A i \in 1..Len(candidates) :
            /\ scores[i].den = Len(UsableTokens)
            /\ scores[i].num
                  = Cardinality({t \in Range(UsableTokens) : OccursIn(t, candidates[i])})
            /\ ~IsNaN(scores[i])
            /\ 0 <= scores[i].num /\ scores[i].num <= scores[i].den

\* C14: when the query has no usable token the outcome is defined (all
\* candidates rejected, or all accepted) and no non-finite score is computed
\* or compared.
C14_NoTokenOutcomeIsDefined ==
    (FilterDone /\ Len(UsableTokens) = 0) =>
        /\ (filtered = <<>> \/ filtered = candidates)
        /\ \A i \in 1..Len(candidates) : ~IsNaN(scores[i])

(***************************************************************************)
(* Properties of the per-entry validation (specification Spec).            *)
(***************************************************************************)
AreasOfDoc == Get(parsedContent, "areas")

\* `endpoints` is a non-empty sequence whose entries are null or keyed
\* records (their `partitions`, when present, a sequence), and `areas` is
\* absent or a sequence of entries of any kind.
DocumentWithBadEntries(x) ==
    /\ KeyedRecord(x)
    /\ Get(x, "endpoints").t = "array"
    /\ Len(Get(x, "endpoints").v) >= 1
    /\ \A i \in 1..Len(Get(x, "endpoints").v) :
          LET ep == Get(x, "endpoints").v[i]
          IN \/ ep = Null
             \/ KeyedRecord(ep) /\ Get(ep, "partitions").t \in {"undefined", "array"}
    /\ Get(x, "areas").t \in {"undefined", "array"}

\* C15: an invalid area, a null or field-less partition, a null endpoint or
\* an endpoint without an identifier never aborts the load: the entry is
\* skipped and the summary record is still returned.
C15_BadEntriesNeverAbort ==
    (LoadDone /\ Parsed /\ DocumentWithBadEntries(parsedContent))
        => IsSummaryResult(loadResult)

\* `areas` is absent, an empty sequence, or not a sequence; the endpoints
\* are as the input contract describes them.
DocumentWithoutAreas(x) ==
    /\ KeyedRecord(x)
    /\ Get(x, "endpoints").t = "array"
    /\ Len(Get(x, "endpoints").v) >= 1
    /\ \A i \in 1..Len(Get(x, "endpoints").v) :
          LET ep == Get(x, "endpoints").v[i]
          IN KeyedRecord(ep) /\ Get(ep, "partitions").t \in {"undefined", "array"}
    /\ \/ Get(x, "areas").t # "array"
       \/ Get(x, "areas").v = <<>>

\* C16: when `areas` is absent, empty or not a sequence, the load still
\* returns one summary record, the area maps and the relation map are empty,
\* totalAreas is 0 and hasAreaInfo is false.
C16_NoAreasStillSummary ==
    (LoadDone /\ Parsed /\ DocumentWithoutAreas(parsedContent))
        => /\ IsSummaryResult(loadResult)
           /\ mapping.areaPartitionMaps = <<>>
           /\ mapping.endpointAreaRelations = EmptyMap
           /\ loadResult.documents[1].metadata.totalAreas = 0
           /\ loadResult.documents[1].metadata.hasAreaInfo = FALSE

(***************************************************************************)
(* Properties of buildAreaPartitionMaps (specification Spec).              *)
(***************************************************************************)

\* The area mapping ran over a non-empty `areas` sequence.
AreasMapped == Mapped /\ hasValidAreas(parsedContent)

AreaList == AreasOfDoc.v

Has(entry, field) == Truthy(Get(entry, field))

\* The entries of a sequence, by position, that satisfy a test, and the
\* k-th of these positions.
KthOf(positions, k) ==
    CHOOSE i \in positions : Cardinality({j \in positions : j <= i}) = k

\* The area entries that are keyed records and do not lack both identifiers.
AreasWithAnIdentifier ==
    {i \in 1..Len(AreaList) :
        KeyedRecord(AreaList[i]) /\ (Has(AreaList[i], "uuid") \/ Has(AreaList[i], "name"))}

\* The area entries that are keyed records with a uuid and a name.
AreasWithBothIdentifiers ==
    {i \in 1..Len(AreaList) :
        KeyedRecord(AreaList[i]) /\ Has(AreaList[i], "uuid") /\ Has(AreaList[i], "name")}

\* The uuid and name an area map was built from.
IdentityOfMap(areaMap) == <<areaMap.areaUuid, areaMap.areaName>>
IdentityOfArea(area) == <<Get(area, "uuid"), Get(area, "name")>>

\* C18 as stated: an area entry is omitted exactly when it is not a keyed
\* record or lacks both uuid and name; an entry with only one of the two
\* yields a map.
C18_OmittedIffLacksBothIdentifiers ==
    AreasMapped =>
        /\ Len(mapping.areaPartitionMaps) = Cardinality(AreasWithAnIdentifier)
        /\ {IdentityOfMap(m) : m \in Range(mapping.areaPartitionMaps)}
              = {IdentityOfArea(AreaList[i]) : i \in AreasWithAnIdentifier}

\* C18, amended: an area entry is omitted exactly when it is not a keyed
\* record or lacks a uuid or a name; only an entry with both yields a map.
C18_OmittedIffLacksAnIdentifier ==
    AreasMapped =>
        /\ Len(mapping.areaPartitionMaps) = Cardinality(AreasWithBothIdentifiers)
        /\ {IdentityOfMap(m) : m \in Range(mapping.areaPartitionMaps)}
              = {IdentityOfArea(AreaList[i]) : i \in AreasWithBothIdentifiers}

\* An area with a uuid and no name is omitted next to one that has both.
C18_Witness ==
    /\ AreasMapped
    /\ Len(AreaList) = 2 /\ Len(mapping.areaPartitionMaps) = 1
    /\ \E i \in 1..2 :
          /\ KeyedRecord(AreaList[i])
          /\ Has(AreaList[i], "uuid") /\ ~Has(AreaList[i], "name")
          /\ \A m \in Range(mapping.areaPartitionMaps) :
                m.areaUuid # Get(AreaList[i], "uuid")

\* C19: the returned sequence has one entry per valid area and none for an
\* invalid one, in the order of the areas in the input; its length never
\* exceeds the number of input areas.
C19_OneMapPerValidAreaInOrder ==
    AreasMapped =>
        /\ Len(mapping.areaPartitionMaps) = Cardinality(AreasWithBothIdentifiers)
        /\ \A k \in 1..Len(mapping.areaPartitionMaps) :
              IdentityOfMap(mapping.areaPartitionMaps[k])
                 = IdentityOfArea(AreaList[KthOf(AreasWithBothIdentifiers, k)])
        /\ Len(mapping.areaPartitionMaps) <= Len(AreaList)

\* Two different valid areas, mapped in their input order.
C19_Witness ==
    /\ AreasMapped
    /\ Len(AreaList) = 2 /\ Len(mapping.areaPartitionMaps) = 2
    /\ AreaList[1] # AreaList[2]
    /\ mapping.areaPartitionMaps[1].areaUuid = Get(AreaList[1], "uuid")
    /\ mapping.areaPartitionMaps[2].areaUuid = Get(AreaList[2], "uuid")

\* The first 8 characters of an identifier.
FirstEight(id) == [j \in 1..Min(Len(id), 8) |-> id[j]]

\* What one partition entry resolves to.
ExpectedPartition(entry) ==
    IF entry.t = "string"
    THEN [uuid |-> entry, name |-> Str(PartitionPrefix \o FirstEight(entry.v))]
    ELSE [uuid |-> Get(entry, "uuid"), name |-> Get(entry, "name")]

\* The partitions expected in the map of an area: its resolvable entries in
\* input order, none when `partitions` is absent or not a sequence.
ExpectedPartitions(area) ==
    LET parts == Get(area, "partitions")
    IN IF parts.t # "array" THEN <<>>
       ELSE LET kept == {j \in 1..Len(parts.v) : Resolvable(parts.v[j])}
            IN [k \in 1..Cardinality(kept) |-> ExpectedPartition(parts.v[KthOf(kept, k)])]

\* C20: in a valid area an identifier string s resolves to uuid s and name
\* "Partition_" + the first 8 characters of s; an object resolves to its own
\* uuid and name and is skipped when either is missing; a null entry is
\* skipped; the resolved partitions keep the input order; an area without a
\* `partitions` sequence yields a map with no partition.
C20_PartitionsResolvedInOrder ==
    AreasMapped =>
        \A k \in 1..Len(mapping.areaPartitionMaps) :
            k <= Cardinality(AreasWithBothIdentifiers) =>
                mapping.areaPartitionMaps[k].partitions
                   = ExpectedPartitions(AreaList[KthOf(AreasWithBothIdentifiers, k)])

\* One area resolves an object and two strings, one of them cut to 8
\* characters; the other area skips a null and a field-less object.
C20_Witness ==
    /\ AreasMapped
    /\ Len(mapping.areaPartitionMaps) = 2
    /\ \E k \in 1..2 :
          LET parts == mapping.areaPartitionMaps[k].partitions
          IN /\ Len(parts) = 3
             /\ parts[1] = [uuid |-> Str(P2), name |-> Str(<<"Z">>)]
             /\ parts[2] = [uuid |-> Str(P3), name |-> Str(PartitionPrefix \o P3)]
             /\ parts[3].uuid = Str(P1)
             /\ Len(parts[3].name.v) = Len(PartitionPrefix) + 8
    /\ \E k \in 1..2 :
          /\ mapping.areaPartitionMaps[k].partitions = <<>>
          /\ Get(AreaList[k], "partitions").t = "array"
          /\ Len(Get(AreaList[k], "partitions").v) = 2

(***************************************************************************)
(* Properties of buildEndpointAreaRelations (specification Spec).          *)
(***************************************************************************)

\* The empty relation map, returned without raising.
EmptyRelations == [threw |-> FALSE, relations |-> EmptyMap]

\* Area maps to hand to the function together with a document that has no
\* `areas` sequence of its own.
SampleAreaMaps ==
    <<[areaUuid |-> Str(<<"a", "1">>), areaName |-> Str(<<"K", "i", "t">>),
       partitions |-> <<[uuid |-> Str(P1), name |-> Str(PartitionPrefix \o FirstEight(P1))],
                        [uuid |-> Str(P3), name |-> Str(PartitionPrefix \o P3)]>>]>>

\* The document reached the mapping stage: a keyed record with endpoints.
ReachedMapping ==
    LoadDone /\ Parsed /\ KeyedRecord(parsedContent) /\ hasValidEndpoints(parsedContent)

EndpointUsable(endpoint) ==
    /\ KeyedRecord(endpoint) /\ Has(endpoint, "uuid")
    /\ Get(endpoint, "partitions").t = "array"
    /\ Len(Get(endpoint, "partitions").v) > 0

\* The usable endpoint entries with identifier u that share a partition with
\* some area map.
UsableMatching(u) ==
    {i \in 1..Len(EndpointsOfDoc) :
        /\ EndpointUsable(EndpointsOfDoc[i])
        /\ Get(EndpointsOfDoc[i], "uuid") = u
        /\ MatchingAreas(EndpointsOfDoc[i]) # {}}

\* The display name of an endpoint: its own, or "Device_" and the first 8
\* characters of its uuid.
ExpectedName(endpoint) ==
    IF Has(endpoint, "name") THEN Get(endpoint, "name")
    ELSE Str(DevicePrefix \o FirstEight(Get(endpoint, "uuid").v))

\* C22: an endpoint without uuid, or whose `partitions` is absent, not a
\* sequence or empty, gives rise to no relation; every other endpoint that
\* matches an area has a relation under its uuid, and a relation carries the
\* uuid and the display name (own name, or "Device_" + first 8 characters of
\* the uuid) of the endpoint it was built from.
C22_OnlyUsableEndpointsRelated ==
    AreasMapped =>
        /\ \A u \in DOMAIN mapping.endpointAreaRelations :
              /\ UsableMatching(u) # {}
              /\ mapping.endpointAreaRelations[u].endpointUuid = u
              /\ mapping.endpointAreaRelations[u].endpointName
                    = ExpectedName(EndpointsOfDoc[Least(UsableMatching(u))])
        /\ \A i \in 1..Len(EndpointsOfDoc) :
              (EndpointUsable(EndpointsOfDoc[i]) /\ MatchingAreas(EndpointsOfDoc[i]) # {})
                 => Get(EndpointsOfDoc[i], "uuid") \in DOMAIN mapping.endpointAreaRelations

\* An unnamed endpoint with a long uuid is related under a synthesized name,
\* next to an endpoint without uuid whose partition belongs to the area.
C22_Witness ==
    /\ AreasMapped
    /\ DOMAIN mapping.endpointAreaRelations = {Str(ELong)}
    /\ mapping.endpointAreaRelations[Str(ELong)].endpointName
          = Str(DevicePrefix \o FirstEight(ELong))
    /\ Len(ELong) > 8
    /\ \E i \in 1..Len(EndpointsOfDoc) :
          /\ KeyedRecord(EndpointsOfDoc[i]) /\ ~Has(EndpointsOfDoc[i], "uuid")
          /\ MatchingAreas(EndpointsOfDoc[i]) # {}

(***************************************************************************)
(* Properties of the statistics and of the fallback (specification Spec).  *)
(***************************************************************************)
SensorCodes == {Num(18)}
ActuatorCodes == {Num(11), Num(12), Num(15)}
ControllerCodes == {Num(0), Num(1), Num(2)}

\* The number of endpoints of the document whose category is one of the codes.
EndpointsOfClass(codes) ==
    Cardinality({i \in 1..Len(EndpointsOfDoc) : Get(EndpointsOfDoc[i], "category") \in codes})

StatisticsOfSummary == loadResult.documents[1].pageContent.statistics

\* C23: in the summary payload sensorCount counts the endpoints of category
\* 18, actuatorCount those of category 11, 12 or 15, controllerCount those of
\* category 0, 1 or 2; the code sets are disjoint and the three counts add
\* up to totalEndpoints at most.
C23_ClassCountsByCategory ==
    (LoadDone /\ IsSummaryResult(loadResult)) =>
        /\ StatisticsOfSummary.sensorCount = EndpointsOfClass(SensorCodes)
        /\ StatisticsOfSummary.actuatorCount = EndpointsOfClass(ActuatorCodes)
        /\ StatisticsOfSummary.controllerCount = EndpointsOfClass(ControllerCodes)
        /\ SensorCodes \cap ActuatorCodes = {}
        /\ SensorCodes \cap ControllerCodes = {}
        /\ ActuatorCodes \cap ControllerCodes = {}
        /\ StatisticsOfSummary.sensorCount + StatisticsOfSummary.actuatorCount
              + StatisticsOfSummary.controllerCount <= StatisticsOfSummary.totalEndpoints

\* A sensor next to an endpoint of a category outside the three classes.
C23_Witness ==
    /\ LoadDone /\ IsSummaryResult(loadResult)
    /\ StatisticsOfSummary.totalEndpoints = 2
    /\ StatisticsOfSummary.sensorCount = 1
    /\ StatisticsOfSummary.actuatorCount = 0
    /\ StatisticsOfSummary.controllerCount = 0
    /\ \E i \in 1..2 : Get(EndpointsOfDoc[i], "category") = Num(7)

\* C24: the fallback result is exactly one record with isValid = false,
\* chunkType = "fallback", category = -1, an identifier "fallback-" + random
\* suffix and the 'system temporarily unavailable' text, and the map returned
\* with it is empty.
C24_FallbackRecordShape ==
    (LoadDone /\ loadResult.status = "returned" /\ ~IsSummaryResult(loadResult)) =>
        /\ Len(loadResult.documents) = 1
        /\ loadResult.documents[1].metadata.isValid = FALSE
        /\ loadResult.documents[1].metadata.chunkType = "fallback"
        /\ loadResult.documents[1].metadata.category = -1
        /\ \E suffix \in RandomSuffixes :
              loadResult.documents[1].metadata.uuid = <<"fallback-", suffix>>
        /\ loadResult.documents[1].readableText
              = "System temporarily unavailable. Please check the configuration and try again."
        /\ loadResult.partitionMap = EmptyMap

\* The fallback is returned for a document whose areas declare partitions.
C24_Witness ==
    /\ LoadDone /\ Parsed /\ KeyedRecord(parsedContent)
    /\ IsFallbackResult(loadResult)
    /\ loadResult.partitionMap = EmptyMap
    /\ DeclaredPartitionEntries(parsedContent) # {}

\* The document as JSON.parse delivered it, before any stage of the load ran.
DocumentAsParsed == JSONParse(rawContent).value

PayloadOfSummary == loadResult.documents[1].pageContent

\* C25: the document is read-only for the load: once the area maps, the
\* relations and the statistics have been computed, the `endpoints` and
\* `areas` of the document are what the parse delivered, entry by entry, and
\* the summary payload carries them as they are.
C25_DocumentCarriedUnchanged ==
    (LoadDone /\ IsSummaryResult(loadResult)) =>
        /\ Get(parsedContent, "endpoints") = Get(DocumentAsParsed, "endpoints")
        /\ Get(parsedContent, "areas") = Get(DocumentAsParsed, "areas")
        /\ PayloadOfSummary.endpoints = Get(DocumentAsParsed, "endpoints")
        /\ PayloadOfSummary.areas = Get(DocumentAsParsed, "areas")

\* The payload carries an area that failed validation and an endpoint
\* that was passed over, while a relation was built from the other entries.
C25_Witness ==
    /\ LoadDone /\ IsSummaryResult(loadResult) /\ AreasMapped
    /\ Len(mapping.areaPartitionMaps) < Len(PayloadOfSummary.areas.v)
    /\ \E i \in 1..Len(PayloadOfSummary.endpoints.v) :
          ~EndpointUsable(PayloadOfSummary.endpoints.v[i])
    /\ DOMAIN mapping.endpointAreaRelations # {}

\* The endpoint entry and the area map a relation was built from.
SourceEndpoint(u) == EndpointsOfDoc[Least(UsableMatching(u))]
SourceAreaMap(u) == mapping.areaPartitionMaps[Least(MatchingAreas(SourceEndpoint(u)))]

\* C26: in every relation partitionUuids and location have the same length
\* and are index-aligned: entry i of each is the uuid and the name of the
\* i-th partition, in the order of the area's own partition list, that the
\* endpoint declares; a partition listed twice by the area appears twice.
C26_LocationAlignedInAreaOrder ==
    AreasMapped =>
        \A u \in DOMAIN mapping.endpointAreaRelations :
            LET rel == mapping.endpointAreaRelations[u]
                area == SourceAreaMap(u)
                shared == SharedPositions(SourceEndpoint(u), area)
            IN /\ Len(rel.partitionUuids) = Len(rel.location)
               /\ Len(rel.partitionUuids) = Cardinality(shared)
               /\ \A k \in 1..Len(rel.partitionUuids) :
                     /\ rel.partitionUuids[k] = area.partitions[KthOf(shared, k)].uuid
                     /\ rel.location[k] = area.partitions[KthOf(shared, k)].name

\* The area lists a partition twice under two names and the endpoint
\* declares its partitions in another order than the area.
C26_Witness ==
    /\ AreasMapped
    /\ \E u \in DOMAIN mapping.endpointAreaRelations :
          LET rel == mapping.endpointAreaRelations[u]
          IN /\ rel.partitionUuids = <<Str(P1), Str(P2), Str(P1)>>
             /\ rel.location[3] = Str(<<"O", "n", "e">>)
             /\ rel.location[1] # rel.location[3]
             /\ Get(SourceEndpoint(u), "partitions").v = <<Str(P2), Str(P1)>>

\* The uuids carried by the endpoint entries of the document.
EndpointUuids ==
    {Get(EndpointsOfDoc[i], "uuid") : i \in {j \in 1..Len(EndpointsOfDoc) :
                                               Has(EndpointsOfDoc[j], "uuid")}}

\* C27: when several endpoint entries carry the same uuid the relation map
\* holds the relation of the first of them that shares a partition with an
\* area, whole and unaltered, whatever the later entries match or are
\* named; there are never more relations than distinct endpoint uuids.
C27_FirstEntryOfUuidWins ==
    AreasMapped =>
        /\ \A u \in DOMAIN mapping.endpointAreaRelations :
              mapping.endpointAreaRelations[u]
                 = [endpointUuid |-> u,
                    endpointName |-> ExpectedName(SourceEndpoint(u)),
                    areaUuid |-> SourceAreaMap(u).areaUuid,
                    areaName |-> SourceAreaMap(u).areaName,
                    partitionUuids |->
                       [k \in 1..Cardinality(SharedPositions(SourceEndpoint(u), SourceAreaMap(u))) |->
                          SourceAreaMap(u).partitions[
                             KthOf(SharedPositions(SourceEndpoint(u), SourceAreaMap(u)), k)].uuid],
                    location |->
                       [k \in 1..Cardinality(SharedPositions(SourceEndpoint(u), SourceAreaMap(u))) |->
                          SourceAreaMap(u).partitions[
                             KthOf(SharedPositions(SourceEndpoint(u), SourceAreaMap(u)), k)].name]]
        /\ Cardinality(DOMAIN mapping.endpointAreaRelations) <= Cardinality(EndpointUuids)

\* Two entries with one uuid match areas; the later one has another name and
\* other partitions, and the relation is the one of the earlier entry.
C27_Witness ==
    /\ AreasMapped
    /\ \E u \in DOMAIN mapping.endpointAreaRelations :
          \E i, j \in UsableMatching(u) :
             /\ i < j
             /\ ExpectedName(EndpointsOfDoc[i]) # ExpectedName(EndpointsOfDoc[j])
             /\ Get(EndpointsOfDoc[i], "partitions") # Get(EndpointsOfDoc[j], "partitions")
             /\ mapping.endpointAreaRelations[u].endpointName = ExpectedName(EndpointsOfDoc[i])

(***************************************************************************)
(* Frame of the relevance filter (specification FilterSpec).               *)
(***************************************************************************)

\* sub is seq with some entries left out: same records, same order.
IsSubsequence(sub, seq) ==
    \E f \in [1..Len(sub) -> 1..Len(seq)] :
        /\ \A a, b \in 1..Len(sub) : a < b => f[a] < f[b]
        /\ \A a \in 1..Len(sub) : sub[a] = seq[f[a]]

\* C28: the call of the filter leaves its input sequence as it was, returns
\* an order-preserving subsequence of it (no record added, duplicated,
\* reordered or altered), and the filter applied again, with the same query
\* and threshold, to the result returns the result.
C28_FilterReturnsSubsequence ==
    [][(filterPc = "idle" /\ filterPc' = "done") =>
          /\ candidates' = candidates
          /\ IsSubsequence(filtered', candidates)
          /\ filterByContentRelevance(filtered', userQuery, minScore) = filtered']_vars

\* Two different candidates are both returned, in their input order.
C28_Witness ==
    /\ FilterDone
    /\ Len(candidates) = 2 /\ Len(filtered) = 2
    /\ filtered[1] # filtered[2]
    /\ filtered = candidates

(***************************************************************************)
(* Properties of the driver (specification RagSpec).                       *)
(***************************************************************************)

\* runRgaSytsem has returned.
RunReturned == response # "none"

LoadRejected == loadResult.status = "threw"

\* C29: a failure of the index load, the retrieval, the filter or the
\* generation is caught by runRgaSytsem and returned as the error value;
\* main calls saveResponse with what runRgaSytsem returned; a failure of
\* saveResponse is caught by main; and main is never cut off before it ends.
C29_MainAlwaysCompletes ==
    /\ (stageFailed # "none") => (response = "error")
    /\ RunReturned => (saveArg = response)
    /\ mainCaught => (mainPc = "done")
    /\ mainPc # "killed"

\* C30: the load is started and never awaited: the stages of runRgaSytsem
\* go on whatever the load has come to, the returned response is the error
\* value exactly when one of its own stages failed, and a rejected load is
\* never turned into the error value.
C30_ResponseIndependentOfLoad ==
    /\ RunReturned => ((response = "error") <=> (stageFailed # "none"))
    /\ (LoadRejected /\ stageFailed = "none") => (response # "error")
    /\ (mainPc = "index") => ENABLED IndexSettled
    /\ (mainPc = "retrieve") => ENABLED RetrievalSettled
    /\ (mainPc = "generate") => ENABLED GenerationSettled

\* The load was rejected while the index was still loading, and the
\* generated response was returned and saved all the same.
C30_Witness ==
    /\ LoadRejected
    /\ stageFailed = "none"
    /\ response = "generated"
    /\ saved = "generated"
    /\ mainPc = "done"

====
